---- MODULE Spec2Model ----
(***************************************************************************)
(* A model of tcx-interpolate.py: one run of the script, from the parsing  *)
(* of the command line to the exit of the process.                         *)
(*                                                                         *)
(* Times are counted in seconds and microseconds from an arbitrary base    *)
(* instant; distances are IEEE-754 binary64 values whose significands are  *)
(* kept as bit sequences, since they do not fit a machine integer of the   *)
(* model checker.                                                          *)
(***************************************************************************)
EXTENDS Integers, Sequences, FiniteSets, TLC

\* ------------------------------------------------------------------ bounds

\* Most trackpoints in one track of an input course.
MaxPoints == 4
\* Largest second (from the base instant) of a start or end time given in UTC.
MaxSec == 2

\* ------------------------------------------------------- optional values

None == <<>>
Some(x) == <<x>>
IsNone(o) == o = <<>>
The(o) == o[1]

\* --------------------------------------------------------------- datetime

\* datetime and timedelta count microseconds.
MicrosPerSecond == 10^6

\* The text of a timestamp on the command line: garbage, or a wall-clock
\* second with no zone ("2019-06-28T09:21:43"), with Z, or with an offset
\* ("...+02:00", off = 7200).
TimeText(wall, aware, off) == [ok |-> TRUE, wall |-> wall, aware |-> aware, off |-> off]
GarbageTime == [ok |-> FALSE, wall |-> 0, aware |-> FALSE, off |-> 0]

\* dateutil.parser.parse: the datetime of a well-formed text (wall-clock
\* fields and tzinfo); it raises on garbage.
DateutilRaises(text) == ~text.ok
DateutilParse(text) ==
  [sec |-> text.wall, us |-> 0, aware |-> text.aware, off |-> text.off]

\* datetime - datetime raises TypeError when exactly one of the two is naive.
SubRaises(a, b) == a.aware # b.aware

\* (A subtraction with its operands exchanged.)
DatetimeSubSwapped(a, b) ==
  ((IF b.aware THEN b.sec - b.off ELSE b.sec) - (IF a.aware THEN a.sec - a.off ELSE a.sec))
    * MicrosPerSecond + (b.us - a.us)

\* datetime - datetime: the timedelta, in microseconds. Aware datetimes are
\* compared as instants (wall clock minus UTC offset), naive ones as wall
\* clocks.
Instant(d) == IF d.aware THEN d.sec - d.off ELSE d.sec
DatetimeSub(a, b) ==
  (Instant(a) - Instant(b)) * MicrosPerSecond + (a.us - b.us)

\* timedelta / int: Python's _divide_and_round of the microseconds, which
\* rounds the quotient half to even (b > 0).
DivideAndRound(a, b) ==
  LET q == a \div b
      r == 2 * (a % b)
  IN  IF r > b \/ (r = b /\ q % 2 = 1) THEN q + 1 ELSE q

\* datetime + timedelta: the wall clock moves, the tzinfo stays.
DatetimeAdd(d, delta) ==
  LET total == d.us + delta
  IN  [d EXCEPT !.sec = d.sec + (total \div MicrosPerSecond),
                !.us = total % MicrosPerSecond]

\* t.strftime("%Y-%m-%dT%H:%M:%SZ"): the wall-clock fields down to the
\* second, followed by a literal Z; microseconds and tzinfo are not printed.
Strftime(d) == [wall |-> d.sec, zone |-> "Z"]

\* ------------------------------------------------------------------ paths

\* A path is a sequence of characters.
LowerChar(c) ==
  CASE c = "T" -> "t" [] c = "C" -> "c" [] c = "X" -> "x"
    [] c = "G" -> "g" [] c = "P" -> "p" [] OTHER -> c
Lower(s) == [k \in 1..Len(s) |-> LowerChar(s[k])]

\* s.split(".")[-1]: what follows the last dot, the whole of s when it has none.
LastDot(s) ==
  LET dots == {k \in 1..Len(s) : s[k] = "."}
  IN  IF dots = {} THEN 0 ELSE CHOOSE k \in dots : \A j \in dots : j <= k
SplitLast(s) == SubSeq(s, LastDot(s) + 1, Len(s))

TCX == <<"t", "c", "x">>
GPX == <<"g", "p", "x">>
InferType(path) == Lower(SplitLast(path))

\* --------------------------------------------------------------- binary64

\* Natural numbers of any size: sequences of digits in base 2^LimbBits, least
\* significant digit first, with no leading zero digit (zero is the empty
\* sequence).
LimbBits == 15
Base == 2^LimbBits

RECURSIVE LTrim(_)
LTrim(a) ==
  IF a = <<>> THEN <<>>
  ELSE IF a[Len(a)] = 0 THEN LTrim(SubSeq(a, 1, Len(a) - 1)) ELSE a

RECURSIVE LOfInt(_)
LOfInt(n) == IF n = 0 THEN <<>> ELSE <<n % Base>> \o LOfInt(n \div Base)

Limb(a, k) == IF k <= Len(a) THEN a[k] ELSE 0
MaxOf(x, y) == IF x >= y THEN x ELSE y
MinOf(x, y) == IF x <= y THEN x ELSE y

LAdd(a, b) ==
  LET n == MaxOf(Len(a), Len(b)) + 1
      c[k \in 0..n] ==
        IF k = 0 THEN 0 ELSE (Limb(a, k) + Limb(b, k) + c[k - 1]) \div Base
  IN  LTrim([k \in 1..n |-> (Limb(a, k) + Limb(b, k) + c[k - 1]) % Base])

\* a - b, for a >= b.
LSub(a, b) ==
  LET n == Len(a)
      br[k \in 0..n] ==
        IF k = 0 THEN 0
        ELSE IF Limb(a, k) - Limb(b, k) - br[k - 1] < 0 THEN 1 ELSE 0
  IN  LTrim([k \in 1..n |-> (Limb(a, k) - Limb(b, k) - br[k - 1] + Base) % Base])

LLess(a, b) ==
  \/ Len(a) < Len(b)
  \/ /\ Len(a) = Len(b)
     /\ \E k \in 1..Len(a) :
          /\ a[k] < b[k]
          /\ \A j \in (k + 1)..Len(a) : a[j] = b[j]

\* a * f, for a factor f <= Base.
LMulSmall(a, f) ==
  LET n == Len(a) + 1
      c[k \in 0..n] == IF k = 0 THEN 0 ELSE (Limb(a, k) * f + c[k - 1]) \div Base
  IN  LTrim([k \in 1..n |-> (Limb(a, k) * f + c[k - 1]) % Base])

\* a * 2^s.
LShl(a, s) ==
  IF a = <<>> THEN <<>>
  ELSE [j \in 1..(s \div LimbBits) |-> 0] \o LMulSmall(a, 2^(s % LimbBits))

\* floor(a / 2^s).
LShr(a, s) ==
  LET q == s \div LimbBits
      r == s % LimbBits
  IN  LTrim([j \in 1..(Len(a) - q) |->
               (a[j + q] \div 2^r) + (Limb(a, j + q + 1) % 2^r) * 2^(LimbBits - r)])

\* Bit k of a, bit 1 being the least significant.
LBit(a, k) == (Limb(a, ((k - 1) \div LimbBits) + 1) \div 2^((k - 1) % LimbBits)) % 2

\* The number of bits of a.
LBitLen(a) ==
  IF a = <<>> THEN 0
  ELSE LimbBits * (Len(a) - 1)
         + (CHOOSE n \in 1..LimbBits : 2^(n - 1) <= a[Len(a)] /\ a[Len(a)] < 2^n)

\* Quotient and remainder of a by a small divisor d, by long division from
\* the most significant digit.
LDivSmall(a, d) ==
  LET n == Len(a)
      acc[k \in 1..(n + 1)] ==
        IF k = n + 1 THEN 0 ELSE (acc[k + 1] % d) * Base + a[k]
  IN  [q |-> LTrim([k \in 1..n |-> acc[k] \div d]),
       r |-> IF n = 0 THEN 0 ELSE acc[1] % d]

\* A binary64 value is (-1)^neg * m * 2^e with m of exactly MantBits bits, or
\* zero (m empty). Subnormals, infinities and NaN are out of the range of
\* the distances modelled.
MantBits == 53
FZero == [neg |-> FALSE, m |-> <<>>, e |-> 0]

\* The binary64 nearest to (-1)^neg * (m + f) * 2^e, 0 <= f < 1, f > 0 iff
\* sticky: round to nearest, ties to even.
RoundToDouble(neg, m, e, sticky) ==
  LET n == LBitLen(m)
  IN  IF n = 0 THEN FZero
      ELSE IF n <= MantBits
        THEN [neg |-> neg, m |-> LShl(m, MantBits - n), e |-> e - (MantBits - n)]
      ELSE
        LET k == n - MantBits
            kept == LShr(m, k)
            st == sticky \/ \E j \in 1..(k - 1) : LBit(m, j) = 1
            up == LBit(m, k) = 1 /\ (st \/ LBit(kept, 1) = 1)
            r == IF up THEN LAdd(kept, <<1>>) ELSE kept
        IN  IF LBitLen(r) > MantBits
              THEN [neg |-> neg, m |-> LShr(r, 1), e |-> e + k + 1]
              ELSE [neg |-> neg, m |-> r, e |-> e + k]

\* x + y in binary64: the exact sum, rounded once.
FAdd(x, y) ==
  IF x.m = <<>> THEN y
  ELSE IF y.m = <<>> THEN x
  ELSE
    LET e == MinOf(x.e, y.e)
        mx == LShl(x.m, x.e - e)
        my == LShl(y.m, y.e - e)
    IN  IF x.neg = y.neg THEN RoundToDouble(x.neg, LAdd(mx, my), e, FALSE)
        ELSE IF LLess(mx, my) THEN RoundToDouble(y.neg, LSub(my, mx), e, FALSE)
        ELSE RoundToDouble(x.neg, LSub(mx, my), e, FALSE)

FNeg(x) == IF x.m = <<>> THEN x ELSE [x EXCEPT !.neg = ~x.neg]
FSub(x, y) == FAdd(x, FNeg(y))

\* The text of a distance: a decimal numeral with one fractional digit,
\* "<tenths div 10>.<tenths mod 10>" (dec), or the repr of a binary64, which
\* is a different text for each value (repr).
DecText(tenths) == [kind |-> "dec", tenths |-> tenths]
ReprText(x) == [kind |-> "repr", f |-> x]

\* float(text) of a decimal numeral: the binary64 nearest to tenths / 10. The
\* numerator is scaled by 2^GuardBits so that the quotient has more than
\* MantBits bits.
GuardBits == MantBits + 11
FloatOfTenths(tenths) ==
  LET d == LDivSmall(LShl(LOfInt(tenths), GuardBits), 10)
  IN  RoundToDouble(FALSE, d.q, -GuardBits, d.r # 0)

\* float(text): of a numeral as above; of a repr, the value it is the repr of.
Float(text) == IF text.kind = "dec" THEN FloatOfTenths(text.tenths) ELSE text.f

\* str(x) of a float.
Str(x) == ReprText(x)

\* ------------------------------------------------------------- documents

\* A trackpoint element: its local tag name ("Trackpoint" in a TCX file,
\* "trkpt" in a GPX file), whether its tag and the tags of its children are
\* namespace-qualified ("{http://...}Trackpoint"), the text of its Time/time
\* and DistanceMeters children when it has them, the rest of its content
\* (payload), and whether an element of that rest carries an xsi:type
\* attribute. A document is the sequence of its tracks (the parents of its
\* trackpoints), each the sequence of its trackpoints, in document order.
PointTag(type) == IF type = TCX THEN "Trackpoint" ELSE "trkpt"

\* root.xpath("//Trackpoint") or root.xpath("//trkpt"): every element of the
\* document, whatever its parent, whose tag is the bare name, in document
\* order. A trackpoint is given by its track and its place in it.
RECURSIVE Flatten(_, _)
Flatten(doc, t) ==
  IF t > Len(doc) THEN <<>>
  ELSE [k \in 1..Len(doc[t]) |-> [t |-> t, k |-> k]] \o Flatten(doc, t + 1)
XPath(doc, name) ==
  SelectSeq(Flatten(doc, 1), LAMBDA r : doc[r.t][r.k].tag = name /\ ~doc[r.t][r.k].ns)

\* (A find that makes the child it does not find.)
FindOrCreate(p, key) == IF IsNone(p[key]) THEN Some(DecText(0)) ELSE p[key]

\* p.find(key): the child of p with the bare tag key, None when p has none.
Find(p, key) == IF p.ns THEN None ELSE p[key]

\* Lines 82-86: every tag loses its namespace.
StripTags(doc) ==
  [t \in 1..Len(doc) |-> [k \in 1..Len(doc[t]) |-> [doc[t][k] EXCEPT !.ns = FALSE]]]

\* objectify.deannotate(root, cleanup_namespaces=True): with the defaults
\* pytype=True and xsi=True it removes the py:pytype and xsi:type attributes
\* of every element.
Deannotate(doc) ==
  [t \in 1..Len(doc) |-> [k \in 1..Len(doc[t]) |-> [doc[t][k] EXCEPT !.xsi = FALSE]]]

\* ------------------------------------------------------------------ state

VARIABLES
  argv,          \* the command line
  file,          \* the input file: whether it is well-formed XML, its document
  writable,      \* whether the output path can be written
  pc,            \* the statement the script is at
  args,          \* argparse's namespace
  start_dist, start_time, end_time,
  root,          \* the parsed tree
  trackpoints,   \* the list of trackpoint elements (as places in root)
  track,         \* the parent of the first trackpoint (a track of root)
  dist_delta, time_delta,
  i,             \* the index of the for loop
  output,        \* the output file: None until it is written
  exit_code,     \* the exit status of the process, None while it runs
  printed        \* what the run has printed, None while nothing

vars == <<argv, file, writable, pc, args, start_dist, start_time, end_time, root,
          trackpoints, track, dist_delta, time_delta, i, output, exit_code, printed>>

env == <<argv, file, writable>>

\* The process ends with status code after printing msg.
Exit(code, msg) ==
  /\ pc' = "exit"
  /\ exit_code' = Some(code)
  /\ printed' = Some(msg)

\* The script runs to its end.
ExitSuccess == 0
\* argparse's parser.error(): usage and message on stderr, status 2.
ExitUsage == 2

\* (An error path that ends with the status of a success.)
ExitFailureAsSuccess == ExitSuccess

\* exit(1) after a print, and an uncaught exception (the interpreter prints
\* the traceback and ends with status 1).
ExitFailure == 1

\* ----------------------------------------------------------------- inputs

\* The value of -d on the command line: a decimal numeral, or a text that
\* float() rejects.
BadNumber == [kind |-> "bad", tenths |-> 0]
FloatRaises(text) == text.kind = "bad"

KML == <<"k", "m", "l">>
Path(stem, ext) == stem \o <<".">> \o ext

\* Trackpoint g (counted over the whole file) of an input file written in
\* the vocabulary of type vocab, whose first trackpoint is at d0 tenths of a
\* metre; missing = <<g, key>> leaves child key out of trackpoint g.
MkPoint(vocab, ns, xsi, g, d0, missing) ==
  LET time == IF missing = <<g, "Time">> THEN None ELSE Some([wall |-> 100 + g, zone |-> "Z"])
  IN  [tag |-> PointTag(vocab), ns |-> ns, xsi |-> xsi, payload |-> g,
       Time |-> IF vocab = TCX THEN time ELSE None,
       time |-> IF vocab = GPX THEN time ELSE None,
       DistanceMeters |->
         IF missing = <<g, "DistanceMeters">> THEN None
         ELSE Some(DecText(d0 + 503 * (g - 1)))]

RECURSIVE SumBefore(_, _)
SumBefore(sizes, t) == IF t <= 1 THEN 0 ELSE sizes[t - 1] + SumBefore(sizes, t - 1)

\* A file of Len(sizes) tracks, track t holding sizes[t] trackpoints.
MkDoc(vocab, ns, xsi, sizes, d0, missing) ==
  [t \in 1..Len(sizes) |->
     [k \in 1..sizes[t] |-> MkPoint(vocab, ns, xsi, SumBefore(sizes, t) + k, d0, missing)]]

Unparsable == [parsable |-> FALSE, doc |-> <<>>]
XmlFile(doc) == [parsable |-> TRUE, doc |-> doc]

\* Files of no track, of one track and of two.
TrackSizes ==
  {<<>>} \cup {<<n>> : n \in 1..MaxPoints} \cup {<<n, m>> : n, m \in 1..MaxPoints}

NoMissing == <<0, "">>
Missing == {NoMissing} \cup {<<g, key>> : g \in 1..MaxPoints, key \in {"Time", "DistanceMeters"}}

\* UTC offset of the timestamps given with "+02:00".
TzOffset == 2 * 3600

Utc(sec) == TimeText(sec, TRUE, 0)
DefaultArgv ==
  [given |-> TRUE, input |-> Path(<<"a">>, TCX), type |-> None, start_dist |-> None,
   start_time |-> Utc(0), end_time |-> Utc(MaxSec)]
DefaultFile == XmlFile(MkDoc(TCX, FALSE, FALSE, <<2>>, 1000, NoMissing))

\* Command lines: every option varies, over a few files.
Paths ==
  {Path(<<"a">>, TCX), Path(<<"a">>, <<"T", "C", "X">>), Path(<<"a">>, <<"T", "c", "x">>),
   Path(<<"a">>, GPX), Path(<<"a">>, <<"G", "p", "X">>), Path(<<"a">>, KML),
   Path(Path(<<"a">>, TCX), <<"b">>), Path(Path(<<"a">>, KML), GPX),
   <<"a">>, TCX, GPX}
CommandLineInputs ==
  {[argv |-> [given |-> g, input |-> p, type |-> t, start_dist |-> d,
              start_time |-> s, end_time |-> e],
    file |-> f, writable |-> w] :
     g \in BOOLEAN, p \in Paths, t \in {None, Some(TCX), Some(GPX), Some(KML)},
     d \in {None, Some(DecText(3510)), Some(BadNumber)},
     s \in {GarbageTime, Utc(0)}, e \in {GarbageTime, Utc(MaxSec)},
     f \in {Unparsable, DefaultFile, XmlFile(MkDoc(GPX, FALSE, FALSE, <<2>>, 1000, NoMissing))},
     w \in BOOLEAN}

\* Timestamps: in UTC, with an offset, and naive, over courses of one track.
Times ==
  {Utc(sec) : sec \in 0..MaxSec}
    \cup {TimeText(TzOffset + sec, TRUE, TzOffset) : sec \in 0..1}
    \cup {TimeText(sec, FALSE, 0) : sec \in 0..1}
TimeInputs ==
  {[argv |-> [DefaultArgv EXCEPT !.input = Path(<<"a">>, v), !.start_time = s, !.end_time = e],
    file |-> XmlFile(MkDoc(v, FALSE, FALSE, <<n>>, 1000, NoMissing)),
    writable |-> TRUE] :
     v \in {TCX, GPX}, s \in Times, e \in Times, n \in 1..MaxPoints}

\* Distances: of the first trackpoint in the file and of -d, in tenths.
Tenths == {0, 1, 7, 1000, 3510}
DistanceInputs ==
  {[argv |-> [DefaultArgv EXCEPT !.start_dist = d],
    file |-> XmlFile(MkDoc(TCX, FALSE, FALSE, <<n>>, d0, NoMissing)),
    writable |-> TRUE] :
     d \in {None} \cup {Some(DecText(x)) : x \in Tenths}, d0 \in Tenths, n \in 1..MaxPoints}

\* Files: of either vocabulary under either dialect, with and without
\* namespaces and xsi:type attributes, of up to two tracks, with a child
\* missing from a trackpoint.
FileInputs ==
  {[argv |-> [DefaultArgv EXCEPT !.input = Path(<<"a">>, t)],
    file |-> XmlFile(MkDoc(v, ns, xsi, sizes, 1000, m)),
    writable |-> TRUE] :
     t \in {TCX, GPX}, v \in {TCX, GPX}, ns \in BOOLEAN, xsi \in BOOLEAN,
     sizes \in TrackSizes, m \in Missing}

Inputs == CommandLineInputs \cup TimeInputs \cup DistanceInputs \cup FileInputs

\* ------------------------------------------------------------ the script

Init ==
  /\ \E in \in Inputs :
       /\ argv = in.argv
       /\ file = in.file
       /\ writable = in.writable
  /\ pc = "args"
  /\ args = None
  /\ start_dist = None
  /\ start_time = None
  /\ end_time = None
  /\ root = None
  /\ trackpoints = None
  /\ track = None
  /\ dist_delta = None
  /\ time_delta = None
  /\ i = None
  /\ output = None
  /\ exit_code = None
  /\ printed = None

\* Line 52, parser.parse_args(): a required option is missing, -t is not
\* one of the choices or -d is not a float: usage and error, status 2.
ArgparseRejects(a) ==
  \/ ~a.given
  \/ ~IsNone(a.type) /\ The(a.type) \notin {TCX, GPX}
  \/ ~IsNone(a.start_dist) /\ FloatRaises(The(a.start_dist))

ParseArgs ==
  /\ pc = "args"
  /\ \/ /\ ArgparseRejects(argv)
        /\ Exit(ExitUsage, "usage")
        /\ UNCHANGED args
     \/ /\ ~ArgparseRejects(argv)
        /\ args' = [input |-> argv.input, type |-> argv.type,
                    start_time |-> argv.start_time, end_time |-> argv.end_time,
                    start_dist |-> IF IsNone(argv.start_dist) THEN None
                                   ELSE Some(Float(The(argv.start_dist)))]
        /\ pc' = "type"
        /\ UNCHANGED <<exit_code, printed>>
  /\ UNCHANGED <<env, start_dist, start_time, end_time, root, trackpoints, track,
                 dist_delta, time_delta, i, output>>

\* Lines 55-59.
TypeOf(a) == IF IsNone(a.type) THEN InferType(a.input) ELSE The(a.type)

ParseType ==
  /\ pc = "type"
  /\ args' = [args EXCEPT !.type = Some(TypeOf(args))]
  /\ IF TypeOf(args) \notin {TCX, GPX}
       THEN Exit(ExitFailure, "Invalid type")
       ELSE pc' = "times" /\ UNCHANGED <<exit_code, printed>>
  /\ UNCHANGED <<env, start_dist, start_time, end_time, root, trackpoints, track,
                 dist_delta, time_delta, i, output>>

\* Lines 62-70. The default start_dist is the int 0, which the subtraction
\* of line 108 converts to the float 0.0.
ParseTimeDist ==
  /\ pc = "times"
  /\ start_dist' = IF IsNone(args.start_dist) THEN FZero ELSE The(args.start_dist)
  /\ \/ /\ DateutilRaises(args.start_time) \/ DateutilRaises(args.end_time)
        /\ Exit(ExitFailure, "ParserError")
        /\ UNCHANGED <<start_time, end_time>>
     \/ /\ ~DateutilRaises(args.start_time)
        /\ ~DateutilRaises(args.end_time)
        /\ start_time' = DateutilParse(args.start_time)
        /\ end_time' = DateutilParse(args.end_time)
        /\ pc' = "parse"
        /\ UNCHANGED <<exit_code, printed>>
  /\ UNCHANGED <<env, args, root, trackpoints, track, dist_delta, time_delta, i, output>>

\* Lines 73-79.
ParseInput ==
  /\ pc = "parse"
  /\ \/ /\ ~file.parsable
        /\ Exit(ExitFailure, "XMLSyntaxError")
        /\ UNCHANGED root
     \/ /\ file.parsable
        /\ root' = file.doc
        /\ pc' = "strip"
        /\ UNCHANGED <<exit_code, printed>>
  /\ UNCHANGED <<env, args, start_dist, start_time, end_time, trackpoints, track,
                 dist_delta, time_delta, i, output>>

\* Lines 82-87.
StripNamespaces ==
  /\ pc = "strip"
  /\ root' = Deannotate(StripTags(root))
  /\ pc' = "select"
  /\ UNCHANGED <<env, args, start_dist, start_time, end_time, trackpoints, track,
                 dist_delta, time_delta, i, output, exit_code, printed>>

\* Lines 90-94. trackpoints[0] raises IndexError on an empty list.
SelectTrackpoints ==
  /\ pc = "select"
  /\ trackpoints' = XPath(root, PointTag(The(args.type)))
  /\ \/ /\ trackpoints' = <<>>
        /\ Exit(ExitFailure, "IndexError")
        /\ UNCHANGED track
     \/ /\ trackpoints' # <<>>
        /\ track' = trackpoints'[1].t
        /\ pc' = "delta"
        /\ UNCHANGED <<exit_code, printed>>
  /\ UNCHANGED <<env, args, start_dist, start_time, end_time, root, dist_delta,
                 time_delta, i, output>>

\* Lines 97-102. time_delta is the int 0 (td false) or a timedelta of us
\* microseconds (td true).
IntZero == [td |-> FALSE, us |-> 0]
Timedelta(us) == [td |-> TRUE, us |-> us]

ComputeDelta ==
  /\ pc = "delta"
  /\ dist_delta' = None
  /\ \/ /\ Len(trackpoints) > 1
        /\ SubRaises(end_time, start_time)
        /\ Exit(ExitFailure, "TypeError")
        /\ time_delta' = IntZero
        /\ UNCHANGED i
     \/ /\ Len(trackpoints) > 1
        /\ ~SubRaises(end_time, start_time)
        /\ time_delta' =
             Timedelta(DivideAndRound(DatetimeSub(end_time, start_time), Len(trackpoints) - 1))
        /\ i' = 0
        /\ pc' = "loop"
        /\ UNCHANGED <<exit_code, printed>>
     \/ /\ Len(trackpoints) <= 1
        /\ time_delta' = IntZero
        /\ i' = 0
        /\ pc' = "loop"
        /\ UNCHANGED <<exit_code, printed>>
  /\ UNCHANGED <<env, args, start_dist, start_time, end_time, root, trackpoints, track,
                 output>>

\* e.text = text, for the child key of p.
SetText(p, key, text) == [p EXCEPT ![key] = Some(text)]

\* (A loop that rewrites the distance in both dialects.)
RewritesDistanceAlways(type) == type \in {TCX, GPX}

\* Line 105: the distance is rewritten in the tcx dialect only.
RewritesDistance(type) == type = TCX

\* Lines 104-113, one iteration: the distance is rewritten before the time is
\* computed. None.text raises AttributeError; datetime + int raises TypeError.
TimeKey(type) == IF type = TCX THEN "Time" ELSE "time"

LoopStep ==
  /\ pc = "loop"
  /\ i < Len(trackpoints)
  /\ LET r == trackpoints[i + 1]
         p == root[r.t][r.k]
         tcx == RewritesDistance(The(args.type))
         ed == Find(p, "DistanceMeters")
         dd == IF IsNone(dist_delta) THEN FSub(start_dist, Float(The(ed)))
               ELSE The(dist_delta)
         p1 == IF tcx THEN SetText(p, "DistanceMeters", Str(FAdd(Float(The(ed)), dd)))
               ELSE p
         et == Find(p, TimeKey(The(args.type)))
         t == DatetimeAdd(start_time, i * time_delta.us)
         p2 == SetText(p1, TimeKey(The(args.type)), Strftime(t))
     IN  \/ /\ tcx
            /\ IsNone(ed)
            /\ Exit(ExitFailure, "AttributeError")
            /\ UNCHANGED <<root, dist_delta, i>>
         \/ /\ tcx => ~IsNone(ed)
            /\ ~time_delta.td
            /\ root' = [root EXCEPT ![r.t][r.k] = p1]
            /\ dist_delta' = IF tcx THEN Some(dd) ELSE dist_delta
            /\ Exit(ExitFailure, "TypeError")
            /\ UNCHANGED i
         \/ /\ tcx => ~IsNone(ed)
            /\ time_delta.td
            /\ IsNone(et)
            /\ root' = [root EXCEPT ![r.t][r.k] = p1]
            /\ dist_delta' = IF tcx THEN Some(dd) ELSE dist_delta
            /\ Exit(ExitFailure, "AttributeError")
            /\ UNCHANGED i
         \/ /\ tcx => ~IsNone(ed)
            /\ time_delta.td
            /\ ~IsNone(et)
            /\ root' = [root EXCEPT ![r.t][r.k] = p2]
            /\ dist_delta' = IF tcx THEN Some(dd) ELSE dist_delta
            /\ i' = i + 1
            /\ pc' = IF i + 1 < Len(trackpoints) THEN "loop" ELSE "write"
            /\ UNCHANGED <<exit_code, printed>>
  /\ UNCHANGED <<env, args, start_dist, start_time, end_time, trackpoints, track,
                 time_delta, output>>

\* Lines 116-120: the track alone is serialized; the script then ends, with
\* status 0.
WriteOutput ==
  /\ pc = "write"
  /\ \/ /\ ~writable
        /\ Exit(ExitFailure, "OSError")
        /\ UNCHANGED output
     \/ /\ writable
        /\ output' = Some(root[track])
        /\ pc' = "exit"
        /\ exit_code' = Some(ExitSuccess)
        /\ UNCHANGED printed
  /\ UNCHANGED <<env, args, start_dist, start_time, end_time, root, trackpoints, track,
                 dist_delta, time_delta, i>>

Next ==
  \/ ParseArgs
  \/ ParseType
  \/ ParseTimeDist
  \/ ParseInput
  \/ StripNamespaces
  \/ SelectTrackpoints
  \/ ComputeDelta
  \/ LoopStep
  \/ WriteOutput

Spec == Init /\ [][Next]_vars

\* ---------------------------------------------------------------- claims

Exited == pc = "exit"
Succeeded == pc = "exit" /\ exit_code = Some(ExitSuccess)
IsTcx == The(args.type) = TCX

\* Trackpoint j of the list (1 is the script's index 0), as it is in the tree
\* and as it was in the input file, and the text of its time.
Elem(j) == root[trackpoints[j].t][trackpoints[j].k]
OrigElem(j) == file.doc[trackpoints[j].t][trackpoints[j].k]
WrittenTime(j) == The(Elem(j)[TimeKey(The(args.type))])
WrittenDist(j) == The(Elem(j).DistanceMeters)

SameZone(a, b) == a.aware = b.aware /\ a.off = b.off

\* C1: in a run over n > 1 trackpoints, the time written to the first is
\* start_time and the time written to the last is end_time (both at second
\* precision; start_time and end_time given in the same zone, so that their
\* wall clocks compare).
C1_EndpointsExact ==
  (Succeeded /\ Len(trackpoints) > 1 /\ SameZone(start_time, end_time)) =>
    /\ WrittenTime(1) = Strftime(start_time)
    /\ WrittenTime(Len(trackpoints)) = Strftime(end_time)

\* What the input needs for a run over its trackpoints to have nothing to
\* fail on: the output can be written and every trackpoint has the children
\* the dialect rewrites.
HasFields(p, type) ==
  /\ ~IsNone(p[TimeKey(type)])
  /\ type = TCX => ~IsNone(p.DistanceMeters)

\* C2: a run over a course of exactly one trackpoint completes without error
\* and sets the time of that trackpoint to start_time.
C2_SinglePoint ==
  (/\ Exited
   /\ Len(trackpoints) = 1
   /\ HasFields(OrigElem(1), The(args.type))
   /\ writable) =>
    /\ exit_code = Some(ExitSuccess)
    /\ WrittenTime(1) = Strftime(start_time)

\* The distance asked for the first trackpoint, in tenths of a metre: 0
\* when -d is not given.
StartTenths == IF IsNone(argv.start_dist) THEN 0 ELSE The(argv.start_dist).tenths
OrigTenths(j) == The(OrigElem(j).DistanceMeters).tenths

\* C3: in the tcx dialect the distance written to every trackpoint i is
\* original_distance(i) + (start_dist - original_distance(0)), start_dist
\* being 0 when -d is not given; the distance written to the first is
\* start_dist.
C3_DistanceOffset ==
  (Succeeded /\ IsTcx) =>
    /\ \A j \in 1..Len(trackpoints) :
         WrittenDist(j) = Str(FloatOfTenths(OrigTenths(j) + (StartTenths - OrigTenths(1))))
    /\ WrittenDist(1) = Str(FloatOfTenths(StartTenths))

\* C4: the trackpoints counted and rewritten are exactly those of the first
\* track of the input, in order, which is the track that is written; the
\* trackpoints of later tracks do not count for n or for the time step.
C4_FirstTrackOnly ==
  Succeeded =>
    /\ trackpoints = [k \in 1..Len(file.doc[1]) |-> [t |-> 1, k |-> k]]
    /\ Len(The(output)) = Len(trackpoints)
    /\ Len(file.doc[1]) > 1 =>
         time_delta.us =
           DivideAndRound(DatetimeSub(end_time, start_time), Len(file.doc[1]) - 1)

\* Whether path ends in a dot followed by ext, in any case.
HasExtension(path, ext) ==
  /\ Len(path) > Len(ext)
  /\ path[Len(path) - Len(ext)] = "."
  /\ Lower(SubSeq(path, Len(path) - Len(ext) + 1, Len(path))) = ext

\* C7: an override given with -t is the dialect; without one, a path ending
\* in .tcx (any case) selects tcx, a path ending in .gpx (any case) selects
\* gpx, and any other path fails with "Invalid type" before the input file
\* is parsed.
C7_DialectSelection ==
  (pc \notin {"args", "type"} /\ ~ArgparseRejects(argv)) =>
    /\ ~IsNone(argv.type) => args.type = argv.type /\ printed # Some("Invalid type")
    /\ (IsNone(argv.type) /\ HasExtension(argv.input, TCX)) =>
         args.type = Some(TCX) /\ printed # Some("Invalid type")
    /\ (IsNone(argv.type) /\ HasExtension(argv.input, GPX)) =>
         args.type = Some(GPX) /\ printed # Some("Invalid type")
    /\ (/\ IsNone(argv.type)
        /\ ~HasExtension(argv.input, TCX)
        /\ ~HasExtension(argv.input, GPX)) =>
         /\ pc = "exit"
         /\ printed = Some("Invalid type")
         /\ exit_code = Some(ExitFailure)
         /\ root = None

\* C10: every time written is start_time + i * step as an instant of UTC,
\* at second precision with the suffix Z, whatever the UTC offset the
\* timestamps were given with.
C10_WrittenInUtc ==
  (Succeeded /\ start_time.aware /\ Len(trackpoints) > 1) =>
    \A j \in 1..Len(trackpoints) :
      WrittenTime(j) =
        [wall |-> Instant(DatetimeAdd(start_time, (j - 1) * time_delta.us)), zone |-> "Z"]

\* C9, as stated: in a run over n > 1 trackpoints the times written never
\* decrease from one trackpoint to the next, whatever start_time and end_time
\* the script accepts.
C9_Monotone ==
  (Succeeded /\ Len(trackpoints) > 1) =>
    \A j \in 1..(Len(trackpoints) - 1) : WrittenTime(j).wall <= WrittenTime(j + 1).wall

\* C9, amended: the times written never decrease when end_time is not
\* earlier than start_time.
C9_MonotoneForward ==
  (Succeeded /\ Len(trackpoints) > 1 /\ Instant(start_time) <= Instant(end_time)) =>
    \A j \in 1..(Len(trackpoints) - 1) : WrittenTime(j).wall <= WrittenTime(j + 1).wall

C9_Witness ==
  /\ Succeeded
  /\ Len(trackpoints) > 2
  /\ Instant(start_time) < Instant(end_time)
  /\ WrittenTime(1).wall < WrittenTime(Len(trackpoints)).wall

\* A trackpoint without the children the dialect rewrites.
Rest(p, type) ==
  [p EXCEPT ![TimeKey(type)] = None,
            !.DistanceMeters = IF type = TCX THEN None ELSE @]

\* C5, as stated: the output holds the trackpoints of the first track of the
\* input, as many and in the same order, and nothing of a trackpoint differs
\* but its time and, in the tcx dialect only, its distance.
C5_OnlyTimeAndDistance ==
  Succeeded =>
    /\ Len(The(output)) = Len(file.doc[1])
    /\ \A k \in 1..Len(file.doc[1]) :
         Rest(The(output)[k], The(args.type)) = Rest(file.doc[1][k], The(args.type))

\* C5, amended: nothing of a trackpoint differs but its time, in the tcx
\* dialect its distance, the namespace qualification of its tags, which is
\* stripped, and its xsi:type attributes, which are removed.
C5_OnlyTimeDistanceAndDecoration ==
  Succeeded =>
    /\ Len(The(output)) = Len(file.doc[1])
    /\ \A k \in 1..Len(file.doc[1]) :
         Rest(The(output)[k], The(args.type)) =
           [Rest(file.doc[1][k], The(args.type)) EXCEPT !.ns = FALSE, !.xsi = FALSE]

C5_Witness ==
  /\ Succeeded
  /\ ~IsTcx
  /\ Len(The(output)) > 1
  /\ file.doc[1][2].ns
  /\ file.doc[1][2].xsi
  /\ ~IsNone(The(output)[2].DistanceMeters)
  /\ The(output)[2].time # file.doc[1][2].time

\* The failures of a run, as properties of its input.
TypeFails == TypeOf(argv) \notin {TCX, GPX}
TimeFails == DateutilRaises(argv.start_time) \/ DateutilRaises(argv.end_time)
Selected == XPath(StripTags(file.doc), PointTag(TypeOf(argv)))
EmptyCourse == file.parsable /\ Selected = <<>>
FieldMissing ==
  \E j \in 1..Len(Selected) :
    ~HasFields(file.doc[Selected[j].t][Selected[j].k], TypeOf(argv))
FailsBeforeWrite ==
  \/ ArgparseRejects(argv)
  \/ TypeFails
  \/ TimeFails
  \/ ~file.parsable
  \/ EmptyCourse
  \/ FieldMissing

\* C6, as stated: every failure ends the process with status 1 after a
\* message, and a run with no failure ends with status 0.
C6_FailureExitsOne ==
  Exited =>
    /\ (FailsBeforeWrite \/ ~writable) => exit_code = Some(1) /\ printed # None
    /\ output = None => exit_code = Some(1) /\ printed # None
    /\ output # None => exit_code = Some(0)

\* C6, amended: a command line that the argument parser rejects (a required
\* option missing, -t not tcx or gpx, -d not a number) ends the process with
\* status 2 after a message, every other failure with status 1 after a
\* message, and a run with no failure with status 0.
C6_ExitStatus ==
  Exited =>
    /\ ArgparseRejects(argv) => exit_code = Some(2) /\ printed # None
    /\ (~ArgparseRejects(argv) /\ (FailsBeforeWrite \/ ~writable)) =>
         exit_code = Some(1) /\ printed # None
    /\ (~ArgparseRejects(argv) /\ output = None) => exit_code = Some(1) /\ printed # None
    /\ output # None => exit_code = Some(0)

C6_Witness ==
  /\ Exited
  /\ ArgparseRejects(argv)
  /\ exit_code = Some(2)
  /\ printed = Some("usage")

\* C8: the output file is written in the last stage only: it is not written
\* while the script runs, a run that fails on its arguments, on the parse, on
\* an empty course or on a trackpoint missing a child never writes it, and
\* when it is written every trackpoint has been rewritten.
C8_OutputOnlyAtTheEnd ==
  /\ ~Exited => output = None
  /\ FailsBeforeWrite => output = None
  /\ output # None =>
       /\ trackpoints # <<>>
       /\ i = Len(trackpoints)
       /\ The(output) = root[track]
       /\ \A j \in 1..Len(trackpoints) : OrigElem(j).ns => ~Elem(j).ns

C8_Witness ==
  /\ Exited
  /\ FieldMissing
  /\ i > 0
  /\ printed = Some("AttributeError")
  /\ output = None

====
